---------------------------- MODULE Spec2Model ----------------------------
(***************************************************************************)
(* Model of the M-PESA confirmation flow of the PaymentModal component     *)
(* (src/src/components/PaymentModal.tsx).                                  *)
(*                                                                         *)
(* The component is a React function component.  Its state lives in        *)
(* useState cells; every function declared in the component body closes    *)
(* over the values those cells had in the render in which the function was *)
(* created.  An async flow started by handleMpesaPayment therefore keeps   *)
(* using the pollingInterval, paymentStatus and transactionId of the       *)
(* render in which the user pressed "pay", however the cells change        *)
(* afterwards; local `let` variables (pollAttempts, errorCount) are shared *)
(* by all callbacks of that flow.                                          *)
(*                                                                         *)
(* One action of the model is one macrotask of the JavaScript event loop   *)
(* (a user event, a timer tick, the resumption of an await), followed by   *)
(* the render that commits its batched state updates and by the effects    *)
(* that render triggers, up to the point where no effect has work left.    *)
(***************************************************************************)
EXTENDS Integers, Sequences, FiniteSets, TLC

(***************************************************************************)
(* Program constants (production build, NODE_ENV # 'development').         *)
(***************************************************************************)
\* number of short-interval ticks after which polling switches (line 394)
SwitchAttempts == 5
\* hard attempt cap (line 366)
maxAttempts == 20
\* consecutive polling errors before the network warning (line 369)
maxErrors == 3

(***************************************************************************)
(* Bounds of the model.                                                    *)
(***************************************************************************)
\* payment sessions the model keeps a record for
MaxSessions == 2
\* status checks of one session that may be awaiting their response at once
MaxInFlight == 2
\* ticks a timer may fire beyond maxAttempts before the model stops it
MaxOverrun == 1
\* history counters saturate at this value
CountCap == 2

Sessions == 1 .. MaxSessions

Null == 0             \* pollingInterval === null
NoRef == << >>        \* a missing (falsy) reference string
NoError == "null"     \* paymentError === null
NoTicket == [ticketId |-> << >>]   \* ticketData === null

Min(a, b) == IF a < b THEN a ELSE b
Bump(n) == Min(n + 1, CountCap)

(***************************************************************************)
(* The gateway (payHeroService) is external: its answers are inputs.       *)
(***************************************************************************)
\* reference strings, as sequences of characters; one pair per session
Reference(s) == <<1, 2, 3, 4, 5, 6, 7, s>>
CheckoutRequestID(s) == <<8, s>>

\* answers of payHeroService.initiateSTKPush for session s
InitResponses(s) ==
    { [success |-> FALSE, reference |-> NoRef, CheckoutRequestID |-> NoRef] }
    \cup { [success |-> TRUE, reference |-> r, CheckoutRequestID |-> c] :
             r \in {NoRef, Reference(s)}, c \in {NoRef, CheckoutRequestID(s)} }

\* answers of payHeroService.checkPaymentStatus: the JSON answers
\* {success, status, provider_reference, error.code} and the two kinds of
\* exception the catch block tells apart
StatusResponses ==
    { "SUCCESS_REF", "SUCCESS", "FAILED", "QUEUED", "PENDING", "PROCESSING",
      "UNKNOWN_STATUS", "ERR_TIMEOUT", "ERR_INVALID_ACCOUNT", "ERR_OTHER",
      "THROW_SYNTAX", "THROW_NETWORK" }

VARIABLES
    isOpen,           \* prop isOpen (owned by the parent, cleared by onClose)
    paymentStatus,    \* useState, line 91
    pollingInterval,  \* useState, line 92: a timer handle or Null
    paymentError,     \* useState, line 93
    transactionId,    \* useState, line 90
    ticketData,       \* useState, line 87
    showETicket,      \* useState, line 86
    isProcessing,     \* useState, line 76
    timers,           \* the active setInterval timers: [id, sess, kind]
    nextHandle,       \* the handle the next setInterval returns
    inflight,         \* status checks awaiting their response: [sess, kind, n]
    sess,             \* per session: position and closure of its async flow
    started,          \* number of sessions started so far
    commits,          \* paymentStatus values committed by the last action
    hist,             \* per session: history of what was observed
    limit,            \* what a specification lets happen: sessions, ticks
    progressValue,    \* useState, line 95, in ninths of a percent
    obs               \* the last answered check, when limit.observe

vars == << isOpen, paymentStatus, pollingInterval, paymentError, transactionId,
           ticketData, showETicket, isProcessing, timers, nextHandle, inflight,
           sess, started, commits, hist, limit, progressValue, obs >>


\* progressValue is kept in ninths of a percent: the increment of line 102,
\* 100 / (180000 / 1000) percent, is 5 ninths
incrementValue == 5
Percent(n) == 9 * n

\* progressMessage (line 94) is only displayed: the model keeps what a
\* macrotask writes to it, Unwritten when it writes nothing
Unwritten == "(unwritten)"
NoMessage == "null"

(***************************************************************************)
(* The component state as one record, so that the component's functions    *)
(* read as functions from state to state.  made and toast collect what one *)
(* macrotask hands to the ticket display and to the notification sink.     *)
(***************************************************************************)
Cur ==
    [ isOpen |-> isOpen, paymentStatus |-> paymentStatus,
      pollingInterval |-> pollingInterval, paymentError |-> paymentError,
      transactionId |-> transactionId, ticketData |-> ticketData,
      showETicket |-> showETicket, isProcessing |-> isProcessing,
      timers |-> timers, nextHandle |-> nextHandle,
      progressValue |-> progressValue, progressMessage |-> Unwritten,
      made |-> 0, toast |-> {} ]

clearInterval(c, h) == [c EXCEPT !.timers = {t \in @ : t.id # h}]

toast(c, title) == [c EXCEPT !.toast = @ \cup {title}]

\* setInterval: the new timer is active and its handle is c.nextHandle
setInterval(c, s, kind) ==
    [c EXCEPT !.timers = @ \cup {[id |-> c.nextHandle, sess |-> s,
                                  kind |-> kind]},
              !.nextHandle = @ + 1]

\* String.prototype.slice(-6): the last six characters
SliceLast6(str) ==
    IF Len(str) <= 6 THEN str ELSE SubSeq(str, Len(str) - 5, Len(str))

\* `CHAN${Date.now().toString().slice(-6)}`: the time-based identifier
ChanFallback == <<0>>

\* generateTicketData, lines 273-302; txn is the transactionId of the render
\* the calling closure was created in
generateTicketData(c, txn) ==
    [c EXCEPT !.ticketData =
                  [ticketId |-> IF txn # NoRef THEN SliceLast6(txn)
                                               ELSE ChanFallback],
              !.showETicket = TRUE,
              !.made = @ + 1]

\* clearPollingAndGenerateTicket, lines 245-255; P is the closure's
\* pollingInterval
clearPollingAndGenerateTicket(c, P, txn) ==
    LET c1 == IF P # Null
              THEN [clearInterval(c, P) EXCEPT !.pollingInterval = Null]
              ELSE c
    IN  toast(generateTicketData(c1, txn), "Payment Successful!")

\* handlePaymentFailure as it would be if a failure still issued the ticket
handlePaymentFailureIssuing(c, P, userMessage) ==
    generateTicketData(
        [c EXCEPT !.paymentStatus = "failed", !.paymentError = userMessage],
        NoRef)

\* handlePaymentFailure, lines 258-270
handlePaymentFailure(c, P, userMessage) ==
    LET c1 == [c EXCEPT !.paymentStatus = "failed",
                        !.paymentError = userMessage]
        c2 == IF P # Null
              THEN [clearInterval(c1, P) EXCEPT !.pollingInterval = Null]
              ELSE c1
    IN  toast(c2, "Payment Failed")

\* the onClose prop: the parent closes the modal
onClose(c) == [c EXCEPT !.isOpen = FALSE]

\* one message for every status while polling goes on
statusMessageSame(resp) == "Check Your Phone"

\* the main line of the progress message of the cases QUEUED (lines 166-172),
\* PENDING (174-180) and PROCESSING (182-188)
statusMessage(resp) ==
    CASE resp = "QUEUED" -> "Payment Request Queued"
      [] resp = "PENDING" -> "Check Your Phone"
      [] resp = "PROCESSING" -> "Confirming Payment"

\* checkPaymentStatus from the await on, lines 127-241: what the answer
\* resp does to the component; P and txn are the closure's pollingInterval
\* and transactionId
checkPaymentStatus(c, P, txn, resp) ==
    CASE resp \in {"SUCCESS_REF", "SUCCESS"} ->
           onClose(clearPollingAndGenerateTicket(
               [c EXCEPT !.paymentStatus = "success",
                         !.paymentError = NoError], P, txn))
      [] resp = "FAILED" ->
           handlePaymentFailure(c, P, "unsuccessful")
      [] resp \in {"QUEUED", "PENDING", "PROCESSING"} ->
           [c EXCEPT !.paymentStatus = "pending",
                     !.progressMessage = statusMessage(resp)]
      [] resp = "UNKNOWN_STATUS" ->
           handlePaymentFailure(c, P, "undetermined")
      [] resp = "ERR_TIMEOUT" ->
           handlePaymentFailure(c, P, "timed out")
      [] resp = "ERR_INVALID_ACCOUNT" ->
           handlePaymentFailure(c, P, "invalid account")
      [] resp = "ERR_OTHER" ->
           handlePaymentFailure(c, P, "verification failed")
      [] resp = "THROW_SYNTAX" ->
           IF P = Null THEN [c EXCEPT !.progressMessage = "Processing Payment"]
           ELSE toast(c, "Connection Issue")
      [] resp = "THROW_NETWORK" ->
           IF P # Null THEN toast(c, "Checking Payment")
           ELSE handlePaymentFailure(c, P, "unable to verify")

\* cleanupPaymentState, lines 307-316, of a render whose pollingInterval is P
cleanupPaymentState(c, P) ==
    LET c1 == IF P # Null
              THEN [clearInterval(c, P) EXCEPT !.pollingInterval = Null]
              ELSE c
    IN  [c1 EXCEPT !.paymentError = NoError, !.isProcessing = FALSE,
                   !.progressValue = 0, !.progressMessage = NoMessage]

\* the effect as it would run were isOpen its only dependency
cleanupEffectOpenOnly(c, prevOpen, prevP, open, P) ==
    IF prevOpen = open THEN c
    ELSE LET c1 == cleanupPaymentState(c, prevP)
         IN  IF ~open
             THEN cleanupPaymentState([c1 EXCEPT !.paymentStatus = "idle"], P)
             ELSE c1

\* the effect as it would be if closing also dropped the ticket
cleanupEffectDropsTicket(c, prevOpen, prevP, open, P) ==
    IF prevOpen = open /\ prevP = P THEN c
    ELSE LET c1 == cleanupPaymentState(c, prevP)
         IN  IF ~open
             THEN cleanupPaymentState(
                      [c1 EXCEPT !.paymentStatus = "idle",
                                 !.ticketData = NoTicket,
                                 !.showETicket = FALSE], P)
             ELSE c1

\* The effect of lines 305-326 for a render with props/state (open, P)
\* following a render with (prevOpen, prevP): when a dependency changed the
\* previous render's cleanup runs, then the body.
cleanupEffect(c, prevOpen, prevP, open, P) ==
    IF prevOpen = open /\ prevP = P THEN c
    ELSE LET c1 == cleanupPaymentState(c, prevP)
         IN  IF ~open
             THEN cleanupPaymentState([c1 EXCEPT !.paymentStatus = "idle"], P)
             ELSE c1

\* The effect of lines 98-117 for a render with paymentStatus status
\* following a render with prevStatus.  While the status is pending its
\* interval is running (ProgressTick); any change of status clears it.
progressEffect(c, prevStatus, status) ==
    IF prevStatus = status THEN c
    ELSE CASE status = "success" -> [c EXCEPT !.progressValue = Percent(100)]
           [] status \in {"idle", "failed"} -> [c EXCEPT !.progressValue = 0]
           [] OTHER -> c

\* Renders and effects until nothing is left to do.  c holds the state the
\* next render commits; (prevOpen, prevP) is what the last render saw;
\* trace collects the committed paymentStatus values, the last of which is
\* what the last render saw.  The effects run in the order they are declared.
RECURSIVE Settle(_, _, _, _)
Settle(c, prevOpen, prevP, trace) ==
    LET open == c.isOpen
        P == c.pollingInterval
        tr == IF trace # << >> /\ trace[Len(trace)] = c.paymentStatus
              THEN trace ELSE Append(trace, c.paymentStatus)
        c0 == progressEffect(c, trace[Len(trace)], c.paymentStatus)
        c1 == cleanupEffect(c0, prevOpen, prevP, open, P)
    IN  IF c1 = c THEN c @@ [commits |-> tr]
        ELSE Settle(c1, open, P, tr)

\* the state after a macrotask that left the component in c
Commit(c) == Settle(c, isOpen, pollingInterval, <<paymentStatus>>)

\* the variables of the component take the values of f
Apply(f) ==
    \E g \in {f} :
        /\ isOpen' = g.isOpen
        /\ paymentStatus' = g.paymentStatus
        /\ pollingInterval' = g.pollingInterval
        /\ paymentError' = g.paymentError
        /\ transactionId' = g.transactionId
        /\ ticketData' = g.ticketData
        /\ showETicket' = g.showETicket
        /\ isProcessing' = g.isProcessing
        /\ timers' = g.timers
        /\ nextHandle' = g.nextHandle
        /\ commits' = g.commits
        /\ progressValue' = g.progressValue


(***************************************************************************)
(* The async flow of one session: initiatePayHeroPayment (lines 328-448)   *)
(* called from processPayment (450-495) and handleMpesaPayment (502-524).  *)
(***************************************************************************)
NoSession ==
    [ pc |-> "none", txnId |-> NoRef,
      pollingInterval |-> Null, paymentStatus |-> "idle",
      transactionId |-> NoRef,
      pollAttempts |-> 0, errorCount |-> 0 ]

NoHistory ==
    [ tickets |-> 0, firstFailed |-> FALSE, verdicts |-> "continue",
      cancelled |-> FALSE, lateChecks |-> 0, switches |-> 0,
      capHits |-> 0, timeoutToasts |-> 0, succeeded |-> FALSE ]

\* the answers whose verdict is ContinuePolling: QUEUED, PENDING, PROCESSING
\* and a malformed (non-JSON) answer
ContinueResponses == {"QUEUED", "PENDING", "PROCESSING", "THROW_SYNTAX"}
SuccessResponses == {"SUCCESS_REF", "SUCCESS"}

\* the verdicts of a session so far: "continue" while every answer was
\* ContinuePolling, "success" when these were followed by one Success and
\* nothing since, "other" otherwise
NextVerdicts(v, resp) ==
    CASE v = "continue" /\ resp \in ContinueResponses -> "continue"
      [] v = "continue" /\ resp \in SuccessResponses -> "success"
      [] OTHER -> "other"

InFlightOf(s) ==
    LET S == {x \in inflight : x.sess = s}
        RECURSIVE Sum(_)
        Sum(T) == IF T = {} THEN 0
                  ELSE LET x == CHOOSE y \in T : TRUE
                       IN  x.n + Sum(T \ {x})
    IN  Sum(S)

\* one more check of timer t awaits its answer
Issue(t) ==
    IF \E x \in inflight : x.id = t.id
    THEN {IF x.id = t.id THEN [x EXCEPT !.n = @ + 1] ELSE x : x \in inflight}
    ELSE inflight
           \cup {[sess |-> t.sess, kind |-> t.kind, id |-> t.id, n |-> 1]}

\* one check of x got its answer
Answer(x) ==
    (inflight \ {x}) \cup (IF x.n > 1 THEN {[x EXCEPT !.n = @ - 1]} ELSE {})

\* what a check's answer adds to the history of session s
Observe(h, f, resp) ==
    [h EXCEPT !.tickets = Min(@ + f.made, CountCap),
              !.verdicts = NextVerdicts(@, resp),
              !.succeeded = @ \/ resp \in SuccessResponses]

\* nothing observed yet
NoObservation ==
    [ kind |-> "none", resp |-> "none", before |-> "idle", status |-> "idle",
      message |-> Unwritten, made |-> 0, run |-> 0, advisories |-> 0,
      pressed |-> "none" ]

\* the notices raised on errors of a check: line 213, line 424
Advisories == {"Connection Issue", "Network Issues"}

\* What a specification with limit.observe keeps of the last answered check:
\* which call it was (kind), the answer, paymentStatus before the call and
\* as checkPaymentStatus left it (c1), the progress message and the tickets
\* it produced; then the length of the run of malformed answers to
\* timer-driven checks this answer extends, restarting after maxErrors, and
\* the advisories raised during that run by the macrotask (f).
Observation(kind, resp, c1, f) ==
    IF ~limit.observe THEN obs
    ELSE LET malformed == resp = "THROW_SYNTAX" /\ kind # "first"
             fresh == obs.run = maxErrors \/ obs.run = 0
             raised == IF f.toast \cap Advisories # {} THEN 1 ELSE 0
         IN  [ kind |-> kind, resp |-> resp,
               before |-> paymentStatus, status |-> c1.paymentStatus,
               message |-> c1.progressMessage, made |-> c1.made,
               run |-> IF ~malformed THEN 0
                       ELSE IF fresh THEN 1 ELSE obs.run + 1,
               advisories |-> IF ~malformed THEN 0
                              ELSE IF fresh THEN raised
                              ELSE Min(obs.advisories + raised, CountCap),
               pressed |-> obs.pressed ]

\* the component as mounted, before the modal is opened
Mounted ==
    /\ isOpen = FALSE
    /\ paymentStatus = "idle"
    /\ pollingInterval = Null
    /\ paymentError = NoError
    /\ transactionId = NoRef
    /\ ticketData = NoTicket
    /\ showETicket = FALSE
    /\ isProcessing = FALSE
    /\ timers = {}
    /\ nextHandle = 1
    /\ inflight = {}
    /\ sess = [s \in Sessions |-> NoSession]
    /\ started = 0
    /\ commits = <<"idle">>
    /\ hist = [s \in Sessions |-> NoHistory]
    /\ progressValue = 0

\* One payment session per modal instance (section 1 of the specification
\* of the flow), polled up to MaxOverrun ticks past the cap.
Init ==
    /\ Mounted
    /\ limit = [sessions |-> 1, ticks |-> <<maxAttempts + MaxOverrun, 0>>,
                observe |-> FALSE, progress |-> 0]
    /\ obs = NoObservation

\* the parent opens the modal
OpenModal ==
    /\ ~isOpen
    /\ Apply(Commit([Cur EXCEPT !.isOpen = TRUE]))
    /\ UNCHANGED <<limit, obs, inflight, sess, started, hist>>

\* the user closes the modal (Dialog onOpenChange = onClose, line 551)
CloseModal ==
    /\ isOpen
    /\ Apply(Commit(onClose(Cur)))
    /\ hist' = [s \in Sessions |->
                  IF sess[s].pc \in {"none", "done"} THEN hist[s]
                  ELSE [hist[s] EXCEPT !.cancelled = TRUE]]
    /\ UNCHANGED <<limit, obs, inflight, sess, started>>

\* what the user typed: whether each field is filled in, and what
\* payHeroService.validatePhoneNumber makes of the number
Forms ==
    [ fullName : BOOLEAN, email : BOOLEAN, mpesaNumber : BOOLEAN,
      isValid : BOOLEAN ]

\* what was wrong with the form of a press of the pay button, as an input:
\* a field left empty, a number the validator rejects, or nothing
Pressed(form) ==
    CASE ~(form.mpesaNumber /\ form.email /\ form.fullName) -> "missing"
      [] ~form.isValid -> "invalid"
      [] OTHER -> "valid"

\* the early returns as they would be if the email were not asked for
AcceptedWithoutEmail(form) ==
    form.mpesaNumber /\ form.fullName /\ form.isValid

\* the early returns of handleMpesaPayment, lines 503-521
Accepted(form) ==
    form.mpesaNumber /\ form.email /\ form.fullName /\ form.isValid

\* handleMpesaPayment: a refused form only raises a toast; otherwise
\* processPayment and initiatePayHeroPayment run up to the await of
\* initiateSTKPush.  A refused press changes nothing of the component: where
\* presses are not recorded it is a step that leaves every variable as it
\* is, and is taken up to the start of the last session only.
HandleMpesaPayment(form) ==
    /\ isOpen
    /\ obs' = IF limit.observe THEN [obs EXCEPT !.pressed = Pressed(form)]
              ELSE obs
    /\ IF ~Accepted(form)
       THEN /\ limit.observe \/ started < limit.sessions
            /\ UNCHANGED <<limit, progressValue, isOpen, paymentStatus,
                             pollingInterval, paymentError,
                             transactionId, ticketData, showETicket,
                             isProcessing, timers, nextHandle, inflight,
                             sess, started, commits, hist>>
       ELSE /\ started < limit.sessions
            /\ LET s == started + 1
               IN  /\ sess' = [sess EXCEPT ![s] =
                                 [NoSession EXCEPT
                                    !.pc = "initiating",
                                    !.pollingInterval = pollingInterval,
                                    !.paymentStatus = paymentStatus,
                                    !.transactionId = transactionId]]
                   /\ started' = s
            /\ Apply(Commit([Cur EXCEPT !.isProcessing = TRUE,
                                        !.paymentStatus = "initiating",
                                        !.paymentError = NoError,
                                        !.progressMessage =
                                            "Initiating Payment"]))
            /\ UNCHANGED <<limit, inflight, hist>>

\* the flow as it would be without the wait before the first check
afterReferenceNoWait == "firstCheck"

\* where the flow stands once it has its reference: at the await of the
\* 2000 ms timeout of line 372
afterReference == "grace"

\* the transaction id as it would be if CheckoutRequestID came first
txnIdOfCheckoutFirst(r) ==
    IF r.CheckoutRequestID # NoRef THEN r.CheckoutRequestID ELSE r.reference

\* line 350: response.reference || response.CheckoutRequestID
txnIdOf(r) ==
    IF r.reference # NoRef THEN r.reference ELSE r.CheckoutRequestID

\* the initiation as it would be if only a rejection made it fail
initiationThrowsOnRejection(r, txnId) == ~r.success

\* the two throws of lines 345-354: the gateway rejected the request, or
\* accepted it and returned neither reference nor CheckoutRequestID
initiationThrows(r, txnId) == ~r.success \/ txnId = NoRef

\* initiateSTKPush answered: lines 345-363, or the catch of 442-447 and the
\* failure branch of processPayment
InitiateResolve(s, r) ==
    /\ sess[s].pc = "initiating"
    /\ LET txnId == txnIdOf(r)
       IN  IF initiationThrows(r, txnId)
           THEN /\ sess' = [sess EXCEPT ![s].pc = "done"]
                /\ Apply(Commit(toast([Cur EXCEPT
                                         !.paymentError = "initiation",
                                         !.paymentStatus = "failed",
                                         !.isProcessing = FALSE],
                                      "Payment Failed")))
           ELSE /\ sess' = [sess EXCEPT ![s].pc = afterReference,
                                        ![s].txnId = txnId]
                /\ Apply(Commit([Cur EXCEPT !.transactionId = txnId,
                                            !.paymentStatus = "pending",
                                            !.progressMessage =
                                                "STK Push Sent"]))
    /\ UNCHANGED <<limit, obs, inflight, started, hist>>

\* the 2000 ms of line 372 elapsed: the first check is issued (line 375)
GraceElapsed(s) ==
    /\ sess[s].pc = "grace"
    /\ sess' = [sess EXCEPT ![s].pc = "firstCheck"]
    /\ hist' = [hist EXCEPT ![s].lateChecks =
                              IF hist[s].cancelled THEN Bump(@) ELSE @]
    /\ UNCHANGED <<limit, obs, progressValue, isOpen, paymentStatus,
                   pollingInterval, paymentError,
                   transactionId, ticketData, showETicket, isProcessing,
                   timers, nextHandle, inflight, started, commits>>

\* startPolling, lines 378-435, up to the creation of the short timer
startPolling(c, s) ==
    LET P == sess[s].pollingInterval
        c1 == IF P # Null THEN clearInterval(c, P) ELSE c
    IN  [setInterval(c1, s, "short") EXCEPT !.pollingInterval = c1.nextHandle]

\* the first check answered: the rest of checkPaymentStatus, startPolling
\* (line 438) and the success branch of processPayment
FirstCheckResolve(s, resp) ==
    /\ sess[s].pc = "firstCheck"
    /\ sess' = [sess EXCEPT ![s].pc = "polling"]
    /\ \E c1 \in {checkPaymentStatus(Cur, sess[s].pollingInterval,
                                       sess[s].transactionId, resp)} :
       \E f \in {Commit(toast(startPolling(c1, s), "STK Push Sent!"))} :
           /\ Apply(f)
           /\ hist' = [hist EXCEPT ![s] =
                         [Observe(@, f, resp) EXCEPT
                            !.firstFailed = (resp = "FAILED")]]
           /\ obs' = Observation("first", resp, c1, f)
    /\ UNCHANGED <<limit, inflight, started>>


\* a timer fires: pollAttempts++ and the check is issued (lines 388-391 of
\* the short timer, 397-398 of the long one)
Tick(t) ==
    /\ t \in timers
    /\ InFlightOf(t.sess) < MaxInFlight
    /\ sess[t.sess].pollAttempts < limit.ticks[t.sess]
    /\ sess' = [sess EXCEPT ![t.sess].pollAttempts = @ + 1]
    /\ inflight' = Issue(t)
    /\ hist' = [hist EXCEPT ![t.sess].lateChecks =
                              IF hist[t.sess].cancelled THEN Bump(@) ELSE @]
    /\ UNCHANGED <<limit, obs, progressValue, isOpen, paymentStatus,
                   pollingInterval, paymentError,
                   transactionId, ticketData, showETicket, isProcessing,
                   timers, nextHandle, started, commits>>

\* lines 394-417: the switch to the long timer, taken by a short-timer
\* callback that finds pollAttempts at the threshold after its check
switchToLong(c, s, id) ==
    LET c1 == clearInterval(c, id)
    IN  [setInterval(c1, s, "long") EXCEPT !.pollingInterval = c1.nextHandle]

\* a check issued by a short-timer tick answered: the rest of
\* checkPaymentStatus and lines 393-417 of the callback
ShortResolve(x, resp) ==
    /\ x \in inflight
    /\ x.kind = "short"
    /\ inflight' = Answer(x)
    /\ LET s == x.sess
           switch == sess[s].pollAttempts = SwitchAttempts
       IN  \E c1 \in {checkPaymentStatus(Cur, sess[s].pollingInterval,
                                          sess[s].transactionId, resp)} :
           \E f \in {Commit(IF switch THEN switchToLong(c1, s, x.id)
                             ELSE c1)} :
           /\ Apply(f)
           /\ hist' = [hist EXCEPT ![s] =
                         [Observe(@, f, resp) EXCEPT
                            !.switches = IF switch THEN Bump(@) ELSE @]]
           /\ obs' = Observation("short", resp, c1, f)
    /\ UNCHANGED <<limit, sess, started>>

\* stopAtCap as it would be if exhausting the attempts failed the session
stopAtCapFailing(c, id, status) ==
    handlePaymentFailure(
        [clearInterval(c, id) EXCEPT !.pollingInterval = Null], Null,
        "timed out")

\* lines 400-414: the long-timer callback stops polling at the cap; status
\* is the paymentStatus of the render that created the flow
stopAtCap(c, id, status) ==
    LET c1 == [clearInterval(c, id) EXCEPT !.pollingInterval = Null]
    IN  IF status = "pending" THEN toast(c1, "Payment Status") ELSE c1

\* a check issued by a long-timer tick answered: the rest of
\* checkPaymentStatus and lines 400-414 of the callback
LongResolve(x, resp) ==
    /\ x \in inflight
    /\ x.kind = "long"
    /\ inflight' = Answer(x)
    /\ LET s == x.sess
           cap == sess[s].pollAttempts >= maxAttempts
       IN  \E c1 \in {checkPaymentStatus(Cur, sess[s].pollingInterval,
                                          sess[s].transactionId, resp)} :
           \E f \in {Commit(IF cap
                             THEN stopAtCap(c1, x.id, sess[s].paymentStatus)
                             ELSE c1)} :
           /\ Apply(f)
           /\ hist' = [hist EXCEPT ![s] =
                         [Observe(@, f, resp) EXCEPT
                            !.capHits = IF cap THEN Bump(@) ELSE @,
                            !.timeoutToasts =
                                IF "Payment Status" \in f.toast
                                THEN Bump(@) ELSE @]]
           /\ obs' = Observation("long", resp, c1, f)
    /\ UNCHANGED <<limit, sess, started>>

Next ==
    \/ OpenModal
    \/ CloseModal
    \/ \E form \in Forms : HandleMpesaPayment(form)
    \/ \E s \in Sessions : \E r \in InitResponses(s) : InitiateResolve(s, r)
    \/ \E s \in Sessions : GraceElapsed(s)
    \/ \E s \in Sessions : \E resp \in StatusResponses :
           FirstCheckResolve(s, resp)
    \/ \E t \in timers : Tick(t)
    \/ \E x \in inflight : \E resp \in StatusResponses : ShortResolve(x, resp)
    \/ \E x \in inflight : \E resp \in StatusResponses : LongResolve(x, resp)

Spec == Init /\ [][Next]_vars

\* the steps of sessions whose timers do not reach the switch of line 394
NextShort ==
    \/ OpenModal
    \/ CloseModal
    \/ \E form \in Forms : HandleMpesaPayment(form)
    \/ \E s \in Sessions : \E r \in InitResponses(s) : InitiateResolve(s, r)
    \/ \E s \in Sessions : GraceElapsed(s)
    \/ \E s \in Sessions : \E resp \in StatusResponses :
          FirstCheckResolve(s, resp)
    \/ \E t \in timers : Tick(t)
    \/ \E x \in inflight : \E resp \in StatusResponses : ShortResolve(x, resp)

InitSupersede ==
    /\ Mounted
    /\ limit = [sessions |-> 2, ticks |-> <<1, 0>>,
                observe |-> FALSE, progress |-> 0]
    /\ obs = NoObservation

\* A second press of the pay button while the first session is still under
\* way: two sessions, the first polled for one tick of its short timer, the
\* second up to the start of its short timer.
SpecSupersede == InitSupersede /\ [][NextShort]_vars

\* the estimator's timer fires (lines 100-107) while the status is pending
ProgressTick ==
    /\ paymentStatus = "pending"
    /\ progressValue < limit.progress \/ progressValue > Percent(98)
    /\ progressValue' = Min(progressValue + incrementValue, Percent(98))
    /\ UNCHANGED <<limit, obs, isOpen, paymentStatus, pollingInterval,
                   paymentError, transactionId, ticketData, showETicket,
                   isProcessing, timers, nextHandle, inflight, sess, started,
                   commits, hist>>

InitObserve ==
    /\ Mounted
    /\ limit = [sessions |-> 1, ticks |-> <<maxErrors, 0>>,
                observe |-> TRUE, progress |-> 2 * incrementValue]
    /\ obs = NoObservation

NextObserve == NextShort \/ ProgressTick

\* One session seen closely: the last answered check is recorded and the
\* estimator's timer runs, for two ticks from 0 or down from above the
\* clamp; the short timer is followed for maxErrors ticks.
SpecObserve == InitObserve /\ [][NextObserve]_vars

TypeOK ==
    /\ isOpen \in BOOLEAN
    /\ paymentStatus \in {"idle", "initiating", "pending", "success", "failed"}
    /\ pollingInterval \in Nat
    /\ \A t \in timers : t.id < nextHandle


(***************************************************************************)
(* Properties.                                                             *)
(***************************************************************************)
TimersOf(s) == {t \in timers : t.sess = s}

\* C1: a session produces at most one TicketRecord, however many status
\* checks answer SUCCESS (generateTicketData runs at most once per session).
C1_AtMostOneTicket ==
    \A s \in Sessions : hist[s].tickets <= 1

\* a step in which a status check of session s gets its answer
AnswerStep(s) ==
    \/ sess[s].pc = "firstCheck" /\ sess'[s].pc = "polling"
    \/ \E x \in inflight : x.sess = s /\ inflight' = Answer(x)

\* C2: once the session is cancelled, the answer of a check issued before
\* the cancellation changes nothing, whatever the answer: paymentStatus stays
\* idle, paymentError stays cleared and no ticket is produced.
C2_StaleAnswerDropped ==
    [][ \A s \in Sessions :
          (hist[s].cancelled /\ hist[s].lateChecks = 0 /\ AnswerStep(s))
            => /\ paymentStatus' = "idle"
               /\ paymentError' = NoError
               /\ ticketData' = ticketData
               /\ hist'[s].tickets = hist[s].tickets ]_vars

\* the transitions of the state machine of section 4.3
Edges ==
    { <<"idle", "initiating">>, <<"initiating", "pending">>,
      <<"initiating", "failed">>, <<"pending", "pending">>,
      <<"pending", "success">>, <<"pending", "failed">> }
    \cup { <<a, "idle">> :
             a \in {"idle", "initiating", "pending", "success", "failed"} }

\* C3: every committed change of paymentStatus follows an edge of the state
\* machine; idle -> success, failed -> pending and success -> pending never
\* occur.
C3_OnlyEdges ==
    \A i \in 1 .. Len(commits) - 1 : <<commits[i], commits[i + 1]>> \in Edges

\* C4: when the first status check answers FAILED the session is Failed, its
\* polling timer is not running afterwards and no ticket is produced for it.
C4_FirstFailedStops ==
    \A s \in Sessions :
        hist[s].firstFailed => /\ TimersOf(s) = {}
                               /\ hist[s].tickets = 0

\* C5: no status check is issued for a session after the modal was closed on
\* it, whenever the close happens.
C5_NoCheckAfterCancel ==
    \A s \in Sessions : hist[s].lateChecks = 0

\* C6: a session whose verdicts are ContinuePolling any number of times and
\* then Success ends in Success with exactly one ticket issued.
C6_ContinueThenSuccess ==
    \A s \in Sessions :
        (hist[s].verdicts = "success" /\ ~hist[s].cancelled)
            => paymentStatus = "success" /\ hist[s].tickets = 1

\* C7: when every check answers ContinuePolling the number of timer-driven
\* checks of a session never exceeds maxAttempts.
C7_AttemptCap ==
    \A s \in Sessions :
        hist[s].verdicts = "continue" => sess[s].pollAttempts <= maxAttempts

\* C8: when every check answers ContinuePolling, from the switch on and
\* until the cap stops it the long-interval timer of the session is active.
C8_LongTimerStaysActive ==
    \A s \in Sessions :
        ( /\ hist[s].verdicts = "continue"
          /\ ~hist[s].cancelled
          /\ hist[s].switches >= 1
          /\ hist[s].capHits = 0 )
            => \E t \in TimersOf(s) : t.kind = "long"

C10_TimeoutAdvisoryOnce ==
    \A s \in Sessions :
        ( /\ hist[s].capHits >= 1
          /\ hist[s].verdicts = "continue"
          /\ ~hist[s].cancelled )
            => hist[s].timeoutToasts = 1


C12_SupersededAnswerDropped ==
    [][ \A s \in Sessions :
          (s < started /\ sess[started].pollingInterval # Null
             /\ AnswerStep(s))
            => /\ paymentStatus' = paymentStatus
               /\ paymentError' = paymentError
               /\ ticketData' = ticketData ]_vars

\* the verdict the specification of the classifier gives an answer
ExpectedVerdict(resp) ==
    CASE resp \in SuccessResponses -> "Success"
      [] resp \in {"QUEUED", "PENDING", "PROCESSING"} -> "ContinuePolling"
      [] OTHER -> "Failure"

\* the verdict to be read off the state c1 that checkPaymentStatus leaves
VerdictOf(c1) ==
    CASE c1.paymentStatus = "success" /\ c1.made = 1 -> "Success"
      [] c1.paymentStatus = "failed" /\ c1.made = 0
           /\ c1.paymentError # NoError -> "Failure"
      [] c1.paymentStatus = "pending" /\ c1.made = 0
           /\ c1.progressMessage \notin {Unwritten, NoMessage}
           -> "ContinuePolling"
      [] OTHER -> "none"

\* the answers that are a response of the gateway, not an exception
Classified == StatusResponses \ {"THROW_SYNTAX", "THROW_NETWORK"}

\* C13: the classification is total and as tabulated.  In every reachable
\* state, whatever the pollingInterval of the calling closure, SUCCESS with
\* or without a provider reference gives Success, FAILED gives Failure,
\* QUEUED, PENDING and PROCESSING give ContinuePolling, leaving the state
\* pending, with three pairwise distinct progress messages, any other
\* status gives Failure, and so does every error code of an answer whose
\* success flag is not set; the last answered check was classified so.
C13_ClassifierTotal ==
    /\ \A resp \in Classified : \A P \in {Null, pollingInterval} :
          LET c1 == checkPaymentStatus(Cur, P, transactionId, resp)
          IN  VerdictOf(c1) = ExpectedVerdict(resp)
    /\ \A r1, r2 \in {"QUEUED", "PENDING", "PROCESSING"} :
          LET m(r) == checkPaymentStatus(Cur, Null, transactionId, r)
                        .progressMessage
          IN  r1 # r2 => m(r1) # m(r2)
    /\ obs.resp \in Classified =>
          /\ obs.made = (IF obs.resp \in SuccessResponses THEN 1 ELSE 0)
          /\ obs.status =
                CASE ExpectedVerdict(obs.resp) = "Success" -> "success"
                  [] ExpectedVerdict(obs.resp) = "ContinuePolling" -> "pending"
                  [] OTHER -> "failed"

\* a timer-driven check answered PROCESSING: the session is pending with
\* the message of that status
C13_Witness ==
    /\ obs.kind = "short"
    /\ obs.resp = "PROCESSING"
    /\ obs.message = "Confirming Payment"
    /\ paymentStatus = "pending"

\* C14: when the malformed answers to consecutive timer-driven checks reach
\* the advisory threshold maxErrors, exactly one advisory was raised for
\* that run, the consecutive-error counter is back at 0 and the call left
\* paymentStatus as it was.
C14_OneAdvisoryPerRun ==
    obs.run = maxErrors =>
        /\ obs.advisories = 1
        /\ \A s \in Sessions : sess[s].errorCount = 0
        /\ obs.status = obs.before

\* C15: a network error (an exception other than a JSON parse error) in a
\* timer-driven check of a pending session is retried silently: the call
\* leaves the session pending, not failed, and raises no error message.
C15_NetworkErrorRetried ==
    (obs.kind \in {"short", "long"} /\ obs.resp = "THROW_NETWORK"
       /\ obs.before = "pending")
      => /\ obs.status = "pending"
         /\ paymentStatus # "failed"

\* C16: a failed initiation (the gateway rejects the request, or accepts it
\* without reference and CheckoutRequestID) ends the session failed: a
\* session past its initiation without a reference is done; the step that
\* ends it sets paymentStatus failed and leaves transactionId alone; a
\* session so ended never issued a check nor started a timer, and nothing
\* of it changes any more (no retry).
C16_FailedInitiationEnds ==
    /\ [](\A s \in Sessions :
            /\ (sess[s].pc \notin {"none", "initiating"}
                   /\ sess[s].txnId = NoRef) => sess[s].pc = "done"
            /\ sess[s].pc = "done" =>
                  /\ sess[s].txnId = NoRef
                  /\ transactionId \notin {Reference(s), CheckoutRequestID(s)}
                  /\ TimersOf(s) = {}
                  /\ InFlightOf(s) = 0
                  /\ sess[s].pollAttempts = 0)
    /\ [][ \A s \in Sessions :
            /\ (sess[s].pc = "initiating" /\ sess'[s].pc = "done")
                  => /\ paymentStatus' = "failed"
                     /\ transactionId' = transactionId
            /\ sess[s].pc = "done" => sess'[s] = sess[s] ]_vars

\* the initiation of a session failed
C16_Witness ==
    \E s \in Sessions :
        /\ sess[s].pc = "done"
        /\ paymentStatus = "failed"
        /\ paymentError = "initiation"

\* C17: the ticket of a session that reached Success with transaction
\* reference R has as ticketId the last six characters of R, the reference
\* of that same session (a checked session always has one, so the
\* time-based fallback is never its ticketId).
C17_TicketIdFromReference ==
    \A s \in Sessions :
        (s = started /\ hist[s].tickets >= 1)
          => ticketData.ticketId = SliceLast6(sess[s].txnId)

\* C18: in every reachable state the progress value is between 0 and 98
\* percent while the session is pending, is 100 percent only in the state
\* Success, and is 0 once the session went to idle or failed.
C18_ProgressRange ==
    /\ paymentStatus = "pending" => progressValue \in 0 .. Percent(98)
    /\ progressValue = Percent(100) => paymentStatus = "success"
    /\ paymentStatus \in {"idle", "failed"} => progressValue = 0

\* the user closes the modal: it goes from open to closed and no call of a
\* session returns in the step
CloseStep == isOpen /\ ~isOpen' /\ sess' = sess /\ inflight' = inflight

\* C19: closing the modal never moves a terminal session back to idle:
\* while paymentStatus is success or failed the close leaves it as it is.
C19_TerminalSurvivesClose ==
    [][ (CloseStep /\ paymentStatus \in {"success", "failed"})
          => paymentStatus' = paymentStatus ]_vars

\* C20: closing the modal, with the cleanup it triggers, leaves a ticket
\* record already produced untouched: neither ticketData nor showETicket
\* changes.
C20_CloseKeepsTicket ==
    [][ (CloseStep /\ ticketData # NoTicket)
          => /\ ticketData' = ticketData
             /\ showETicket' = showETicket ]_vars

\* the user closed the modal after the session produced its ticket: the
\* step took paymentStatus from failed to idle with nothing in between, as
\* only a close by the user does, and the ticket is there and shown
C20_Witness ==
    /\ \E s \in Sessions : hist[s].tickets >= 1
    /\ commits = <<"failed", "idle">>
    /\ ~isOpen
    /\ ticketData # NoTicket
    /\ showETicket

\* C21: within a session the transaction id is assigned once, when the
\* session goes from initiating to pending, to the reference of the answer
\* when it has one and to its CheckoutRequestID otherwise.  From then on the
\* id the session's checks are made with (txnId) never changes, and the
\* transactionId of the component changes in no step but that assignment:
\* not in the answer of a check, a failure or a close of the modal.
C21_TransactionIdOnce ==
    /\ [](\A s \in Sessions :
            /\ \A r \in InitResponses(s) :
                  txnIdOf(r) = IF r.reference # NoRef THEN r.reference
                               ELSE r.CheckoutRequestID
            /\ sess[s].pc \in {"grace", "firstCheck", "polling"} =>
                  /\ sess[s].txnId \in {Reference(s), CheckoutRequestID(s)}
                  /\ s = started => transactionId = sess[s].txnId)
    /\ [][ /\ \A s \in Sessions :
                sess[s].txnId # NoRef => sess'[s].txnId = sess[s].txnId
          /\ transactionId' # transactionId =>
                \E s \in Sessions :
                    /\ sess[s].pc = "initiating"
                    /\ sess'[s].pc = "grace"
                    /\ \E r \in InitResponses(s) :
                          transactionId' = txnIdOf(r)
                    /\ transactionId' = sess'[s].txnId ]_vars

\* a session that got only a CheckoutRequestID, polled, failed and was
\* cancelled, with its transaction id still in place
C21_Witness ==
    \E s \in Sessions :
        /\ sess[s].pc = "polling"
        /\ sess[s].pollAttempts >= 1
        /\ hist[s].cancelled
        /\ hist[s].firstFailed
        /\ transactionId = CheckoutRequestID(s)

\* C22: a press of the pay button with the name, the email or the phone
\* number missing, or with a number the validator rejects, is refused on
\* the spot: the step sends no initiation (no session starts or moves),
\* leaves paymentStatus as it is, idle if it was, assigns no transaction id
\* and starts no timer.
C22_RefusedPressDoesNothing ==
    [][ (obs'.pressed # obs.pressed
           /\ obs'.pressed \in {"missing", "invalid"})
          => /\ started' = started
             /\ sess' = sess
             /\ inflight' = inflight
             /\ paymentStatus' = paymentStatus
             /\ transactionId' = transactionId
             /\ timers' = timers
             /\ pollingInterval' = pollingInterval ]_vars

\* the last press was refused for a rejected number, before any session:
\* the component is as it was mounted and opened
C22_Witness ==
    /\ obs.pressed = "invalid"
    /\ started = 0
    /\ paymentStatus = "idle"
    /\ transactionId = NoRef
    /\ timers = {}

\* C23: no status check of a session is issued before the session has its
\* transaction reference and the wait of 2000 ms that follows has elapsed:
\* the first check is issued from the wait only, by a session with a
\* reference.  The timer-driven ticks come only once that first check was
\* answered: before, the session has no timer, no tick and no check of a
\* timer awaiting its answer.
C23_GraceBeforeFirstCheck ==
    /\ [](\A s \in Sessions :
            /\ sess[s].pc \in {"grace", "firstCheck", "polling"}
                  => sess[s].txnId # NoRef
            /\ sess[s].pc # "polling" =>
                  /\ TimersOf(s) = {}
                  /\ InFlightOf(s) = 0
                  /\ sess[s].pollAttempts = 0)
    /\ [][ \A s \in Sessions :
            /\ (sess'[s].pc = "firstCheck" /\ sess[s].pc # "firstCheck")
                  => sess[s].pc = "grace"
            /\ (sess'[s].pc = "grace" /\ sess[s].pc # "grace")
                  => sess[s].pc = "initiating"
            /\ (sess'[s].pc = "polling" /\ sess[s].pc # "polling")
                  => sess[s].pc = "firstCheck" ]_vars

\* the first tick of the short timer, after the wait and the first check
C23_Witness ==
    \E s \in Sessions :
        /\ sess[s].pc = "polling"
        /\ sess[s].pollAttempts = 1
        /\ InFlightOf(s) = 1

\* C24: a ticket exists, is shown, or the session is in Success only if
\* some status check of the session was answered with the success flag set
\* and status SUCCESS: failures, answers that continue the polling, thrown
\* errors, the expiry of the attempts and closes of the modal produce none.
C24_TicketNeedsSuccess ==
    /\ \A s \in Sessions : hist[s].tickets >= 1 => hist[s].succeeded
    /\ (\A s \in Sessions : ~hist[s].succeeded) =>
          /\ ticketData = NoTicket
          /\ ~showETicket
          /\ paymentStatus # "success"
          /\ \A i \in 1 .. Len(commits) : commits[i] # "success"

\* a session that failed, was cancelled and polled on, every answer other
\* than SUCCESS: there is no ticket
C24_Witness ==
    \E s \in Sessions :
        /\ sess[s].pc = "polling"
        /\ sess[s].pollAttempts >= 2
        /\ InFlightOf(s) = 0
        /\ hist[s].verdicts = "other"
        /\ hist[s].cancelled
        /\ ~hist[s].succeeded
        /\ ticketData = NoTicket

====
